---- MODULE Spec2Model ----
(***************************************************************************)
(* TradeTrack-AI: the transaction list kept by App.tsx, its handlers, and  *)
(* the portfolio accounting pass (the portfolio/stats useMemo of App.tsx)   *)
(* together with the values derived from it for display.                    *)
(*                                                                          *)
(* Numbers are exact rationals <<numerator, denominator>>; the rounding of  *)
(* IEEE doubles is not modelled.  <<0, 0>> stands for a non-finite double   *)
(* (NaN, or the result of dividing by zero).  Strings that the code         *)
(* transforms (symbol, exchange, type) are sequences of characters.         *)
(***************************************************************************)
EXTENDS Integers, Sequences, FiniteSets, TLC

----------------------------------------------------------------------------
(* Bounds of the model *)

\* longest transaction list explored
MaxTx == 3

----------------------------------------------------------------------------
(* The application state *)

VARIABLES
    transactions,       \* useState<Transaction[]>
    currentPrices,      \* useState<Record<string, number>>
    portfolio,          \* the memoized StockSummary list
    stats,              \* the memoized totals
    allocationData,     \* the allocation entries derived from portfolio
    unrealizedPercent,  \* the percent return StatsCards derives from the totals
    drawn,              \* how many transaction ids have been drawn so far
    user,               \* useAuth().user: the id of the user, or NoUser
    isGuestMode,        \* useState(false)
    isDataLoaded,       \* useState(false)
    localStorage,       \* what window.localStorage holds for each user id
    isFetching,         \* isFetchingRef.current
    request,            \* the symbols of the fetch awaited, with its isManual flag
    inFlight,           \* how many fetchCurrentPrices promises are awaited
    fetchedInSession,   \* fetchedInSession.current
    cooldownRemaining,  \* useState<number>(0)
    priceError,         \* useState<string | null>(null)
    pending,            \* the load effect has set state that is yet to be rendered
    retry               \* the withRetry call under way: its arguments and its progress

\* the list, the prices and what a render derives from them
ledger == <<transactions, currentPrices, portfolio, stats, allocationData,
            unrealizedPercent, drawn>>

\* the user, the storage and the state of the price fetches
session == <<user, isGuestMode, isDataLoaded, localStorage, isFetching, request, inFlight,
             fetchedInSession, cooldownRemaining, priceError, pending, retry>>

vars == <<ledger, session>>

----------------------------------------------------------------------------
(* Strings: String.prototype.toUpperCase, String.prototype.trim, localeCompare *)

\* the upper-case form of every lower-case letter
UpperOf ==
    [a |-> "A", b |-> "B", c |-> "C", d |-> "D", e |-> "E", f |-> "F", g |-> "G", h |-> "H", i |-> "I",
     j |-> "J", k |-> "K", l |-> "L", m |-> "M", n |-> "N", o |-> "O", p |-> "P", q |-> "Q", r |-> "R",
     s |-> "S", t |-> "T", u |-> "U", v |-> "V", w |-> "W", x |-> "X", y |-> "Y", z |-> "Z"]

UpperChar(c) == IF c \in DOMAIN UpperOf THEN UpperOf[c] ELSE c

ToUpperCase(s) == [i \in DOMAIN s |-> UpperChar(s[i])]

RECURSIVE TrimStart(_)
TrimStart(s) == IF s # <<>> /\ Head(s) = " " THEN TrimStart(Tail(s)) ELSE s

RECURSIVE TrimEnd(_)
TrimEnd(s) ==
    IF s # <<>> /\ s[Len(s)] = " " THEN TrimEnd(SubSeq(s, 1, Len(s) - 1)) ELSE s

Trim(s) == TrimEnd(TrimStart(s))

\* rank of the letters in the collation order: the lower-case form of a letter
\* before its upper-case form, every other character before the letters
RankOf ==
    [a |-> 1, A |-> 2, b |-> 3, B |-> 4, c |-> 5, C |-> 6, d |-> 7, D |-> 8,
     e |-> 9, E |-> 10, f |-> 11, F |-> 12, g |-> 13, G |-> 14, h |-> 15, H |-> 16,
     i |-> 17, I |-> 18, j |-> 19, J |-> 20, k |-> 21, K |-> 22, l |-> 23, L |-> 24,
     m |-> 25, M |-> 26, n |-> 27, N |-> 28, o |-> 29, O |-> 30, p |-> 31, P |-> 32,
     q |-> 33, Q |-> 34, r |-> 35, R |-> 36, s |-> 37, S |-> 38, t |-> 39, T |-> 40,
     u |-> 41, U |-> 42, v |-> 43, V |-> 44, w |-> 45, W |-> 46, x |-> 47, X |-> 48,
     y |-> 49, Y |-> 50, z |-> 51, Z |-> 52]

CharRank(c) == IF c \in DOMAIN RankOf THEN RankOf[c] ELSE 0

\* a.localeCompare(b) as -1, 0, 1
RECURSIVE LocaleCompare(_, _)
LocaleCompare(a, b) ==
    IF a = <<>> /\ b = <<>> THEN 0
    ELSE IF a = <<>> THEN -1
    ELSE IF b = <<>> THEN 1
    ELSE IF CharRank(Head(a)) < CharRank(Head(b)) THEN -1
    ELSE IF CharRank(Head(a)) > CharRank(Head(b)) THEN 1
    ELSE LocaleCompare(Tail(a), Tail(b))

UNKNOWN == <<"U","N","K","N","O","W","N">>
BUY == <<"B","U","Y">>
SELL == <<"S","E","L","L">>

----------------------------------------------------------------------------
(* Numbers *)

NaN == <<0, 0>>

IsNaN(x) == x[2] = 0

Abs(n) == IF n < 0 THEN -n ELSE n

RECURSIVE GCD(_, _)
GCD(a, b) == IF b = 0 THEN a ELSE GCD(b, a % b)

\* the rational n/d (d # 0) in lowest terms with a positive denominator
Norm(n, d) ==
    LET g == GCD(Abs(n), Abs(d))
        s == IF d < 0 THEN -1 ELSE 1
    IN  <<s * (n \div g), Abs(d) \div g>>

Num(n) == <<n, 1>>

Zero == Num(0)

Neg(x) == IF IsNaN(x) THEN NaN ELSE <<-x[1], x[2]>>

Add(x, y) ==
    IF IsNaN(x) \/ IsNaN(y) THEN NaN
    ELSE LET g == GCD(x[2], y[2])
         IN  Norm(x[1] * (y[2] \div g) + y[1] * (x[2] \div g), (x[2] \div g) * y[2])

Sub(x, y) == Add(x, Neg(y))

Mul(x, y) ==
    IF IsNaN(x) \/ IsNaN(y) THEN NaN
    ELSE LET g1 == GCD(Abs(x[1]), y[2])
             g2 == GCD(Abs(y[1]), x[2])
         IN  IF x[1] = 0 \/ y[1] = 0 THEN Zero
             ELSE <<(x[1] \div g1) * (y[1] \div g2), (x[2] \div g2) * (y[2] \div g1)>>

\* x / y; a division by zero gives a non-finite value
Div(x, y) ==
    IF IsNaN(x) \/ IsNaN(y) \/ y[1] = 0 THEN NaN
    ELSE Mul(x, Norm(y[2], y[1]))

\* a/b < c/d for a, c >= 0 and b, d > 0, by comparing the continued fractions
RECURSIVE LtPos(_, _, _, _)
LtPos(a, b, c, d) ==
    IF a \div b # c \div d THEN a \div b < c \div d
    ELSE IF c % d = 0 THEN FALSE
    ELSE IF a % b = 0 THEN TRUE
    ELSE LtPos(d, c % d, b, a % b)

\* x < y; every comparison with a non-finite value is false
Lt(x, y) ==
    IF IsNaN(x) \/ IsNaN(y) THEN FALSE
    ELSE IF x[1] < 0 /\ y[1] >= 0 THEN TRUE
    ELSE IF x[1] >= 0 /\ y[1] < 0 THEN FALSE
    ELSE IF x[1] >= 0 THEN LtPos(x[1], x[2], y[1], y[2])
    ELSE LtPos(-y[1], y[2], -x[1], x[2])

Gt(x, y) == Lt(y, x)

\* the value is falsy in JavaScript (0 or NaN)
Falsy(x) == IsNaN(x) \/ x[1] = 0

----------------------------------------------------------------------------
(* The accounting pass: the portfolio/stats useMemo of App.tsx *)

Null == <<>>

\* (t.symbol || 'UNKNOWN').toUpperCase().trim()
NormalizeSymbol(symbol) == Trim(ToUpperCase(IF symbol = <<>> THEN UNKNOWN ELSE symbol))

SymbolKey(t) == NormalizeSymbol(t.symbol)

\* groups[symbolKey].push(t), a new group being added after the existing ones
GroupPush(groups, t) ==
    LET symbolKey == SymbolKey(t)
    IN  IF \E i \in DOMAIN groups : groups[i].symbol = symbolKey
        THEN [i \in DOMAIN groups |->
                IF groups[i].symbol = symbolKey
                THEN [groups[i] EXCEPT !.txs = Append(@, t)]
                ELSE groups[i]]
        ELSE Append(groups, [symbol |-> symbolKey, txs |-> <<t>>])

RECURSIVE GroupAll(_, _)
GroupAll(groups, txs) ==
    IF txs = <<>> THEN groups ELSE GroupAll(GroupPush(groups, Head(txs)), Tail(txs))

\* Object.entries(groups): the groups in order of first appearance
GroupBySymbol(txs) == GroupAll(<<>>, txs)

\* t placed in front of the elements of the same date
RECURSIVE InsertBeforeTies(_, _)
InsertBeforeTies(sorted, t) ==
    IF sorted = <<>> THEN <<t>>
    ELSE IF sorted[Len(sorted)].date < t.date THEN Append(sorted, t)
    ELSE Append(InsertBeforeTies(SubSeq(sorted, 1, Len(sorted) - 1), t), sorted[Len(sorted)])

\* t placed behind every element of the sorted list whose date is not later
RECURSIVE InsertByDate(_, _)
InsertByDate(sorted, t) ==
    IF sorted = <<>> THEN <<t>>
    ELSE IF sorted[Len(sorted)].date <= t.date THEN Append(sorted, t)
    ELSE Append(InsertByDate(SubSeq(sorted, 1, Len(sorted) - 1), t), sorted[Len(sorted)])

RECURSIVE SortFrom(_, _)
SortFrom(sorted, txs) ==
    IF txs = <<>> THEN sorted ELSE SortFrom(InsertByDate(sorted, Head(txs)), Tail(txs))

\* a group replayed in the order of the list
InListOrder(txs) == txs

\* txs.sort((a, b) => date(a) - date(b)): ascending and stable
SortByDate(txs) == SortFrom(<<>>, txs)

EPSILON == <<1, 1000000>>

InitialReplay == [sharesHeld |-> Zero, totalCost |-> Zero, realizedPL |-> Zero]

\* const avg = sharesHeld > 0 ? totalCost / sharesHeld : 0
AverageCost(sharesHeld, totalCost) ==
    IF Gt(sharesHeld, Zero) THEN Div(totalCost, sharesHeld) ELSE Zero

\* a BUY that adds the price, not shares * price, to the cost
ApplyBuyUnitPrice(st, shares, price) ==
    [st EXCEPT !.sharesHeld = Add(@, shares), !.totalCost = Add(@, price)]

\* sharesHeld += shares; totalCost += shares * price
ApplyBuy(st, shares, price) ==
    [st EXCEPT !.sharesHeld = Add(@, shares),
               !.totalCost = Add(@, Mul(shares, price))]

\* a SELL that leaves the cost as it is
ApplySellKeepingCost(st, shares, price) ==
    LET avg == AverageCost(st.sharesHeld, st.totalCost)
    IN  [sharesHeld |-> Sub(st.sharesHeld, shares),
         totalCost |-> st.totalCost,
         realizedPL |-> Add(st.realizedPL, Sub(Mul(shares, price), Mul(shares, avg)))]

\* a SELL that takes the proceeds, not the cost of the sold shares, off the cost
ApplySellProceeds(st, shares, price) ==
    LET avg == AverageCost(st.sharesHeld, st.totalCost)
    IN  [sharesHeld |-> Sub(st.sharesHeld, shares),
         totalCost |-> Sub(st.totalCost, Mul(shares, price)),
         realizedPL |-> Add(st.realizedPL, Sub(Mul(shares, price), Mul(shares, avg)))]

\* realizedPL += shares * price - shares * avg; sharesHeld -= shares;
\* totalCost -= shares * avg
ApplySell(st, shares, price) ==
    LET avg == AverageCost(st.sharesHeld, st.totalCost)
    IN  [sharesHeld |-> Sub(st.sharesHeld, shares),
         totalCost |-> Sub(st.totalCost, Mul(shares, avg)),
         realizedPL |-> Add(st.realizedPL, Sub(Mul(shares, price), Mul(shares, avg)))]

\* a replay that rejects a SELL of more shares than are held
ApplyTransactionRejectingOversell(st, t) ==
    IF IsNaN(t.shares) \/ IsNaN(t.price) THEN st
    ELSE IF t.type = BUY THEN ApplyBuy(st, t.shares, t.price)
    ELSE IF Lt(st.sharesHeld, t.shares) THEN st
    ELSE ApplySell(st, t.shares, t.price)

\* a replay that applies a transaction whatever its shares and price are
ApplyTransactionUnguarded(st, t) ==
    IF t.type = BUY THEN ApplyBuy(st, t.shares, t.price)
    ELSE ApplySell(st, t.shares, t.price)

\* the body of txs.forEach: one transaction applied to the running state
ApplyTransaction(st, t) ==
    IF IsNaN(t.shares) \/ IsNaN(t.price) THEN st
    ELSE IF t.type = BUY THEN ApplyBuy(st, t.shares, t.price)
    ELSE ApplySell(st, t.shares, t.price)

RECURSIVE ReplayFrom(_, _)
ReplayFrom(st, txs) ==
    IF txs = <<>> THEN st ELSE ReplayFrom(ApplyTransaction(st, Head(txs)), Tail(txs))

Replay(txs) == ReplayFrom(InitialReplay, txs)

\* a close-out that clears the shares and keeps the cost
CloseOutSharesOnly(st) ==
    IF Lt(st.sharesHeld, EPSILON) THEN [st EXCEPT !.sharesHeld = Zero] ELSE st

\* a close-out that clears the shares only when they are exactly zero
CloseOutExactZero(st) ==
    IF st.sharesHeld = Zero THEN [st EXCEPT !.sharesHeld = Zero, !.totalCost = Zero] ELSE st

\* a close-out that leaves oversold holdings as they are
CloseOutWithinEpsilon(st) ==
    IF Lt(st.sharesHeld, EPSILON) /\ Gt(st.sharesHeld, Neg(EPSILON))
    THEN [st EXCEPT !.sharesHeld = Zero, !.totalCost = Zero]
    ELSE st

\* if (sharesHeld < 0.000001) { sharesHeld = 0; totalCost = 0; }
CloseOut(st) ==
    IF Lt(st.sharesHeld, EPSILON)
    THEN [st EXCEPT !.sharesHeld = Zero, !.totalCost = Zero]
    ELSE st

\* currentPrices[symbol] || null
CurrentPrice(prices, symbol) ==
    IF symbol \in DOMAIN prices /\ ~Falsy(prices[symbol]) THEN prices[symbol] ELSE Null

\* txs[0]?.name || symbol
DisplayName(txs, symbol) ==
    IF txs # <<>> /\ txs[1].name # <<>> THEN txs[1].name ELSE symbol

\* the StockSummary pushed for one group
Summarize(group, prices) ==
    LET txs == SortByDate(group.txs)
        st == CloseOut(Replay(txs))
    IN  [symbol |-> group.symbol,
         name |-> DisplayName(txs, group.symbol),
         totalShares |-> st.sharesHeld,
         avgCost |-> AverageCost(st.sharesHeld, st.totalCost),
         currentPrice |-> CurrentPrice(prices, group.symbol),
         totalInvested |-> st.totalCost,
         realizedPL |-> st.realizedPL,
         transactions |-> txs]

ZeroTotals ==
    [totalValue |-> Zero, totalCostBasis |-> Zero,
     totalRealizedPL |-> Zero, totalUnrealizedPL |-> Zero]

\* the totals after one group has been added to them
Accumulate(totals, s) ==
    LET marketVal == Mul(s.totalShares, s.currentPrice)
        priced == s.currentPrice # Null /\ Gt(s.totalShares, Zero)
    IN  [totalRealizedPL |-> Add(totals.totalRealizedPL, s.realizedPL),
         totalCostBasis |-> Add(totals.totalCostBasis, s.totalInvested),
         totalValue |-> Add(totals.totalValue,
                            IF priced THEN marketVal ELSE s.totalInvested),
         totalUnrealizedPL |->
            IF priced THEN Add(totals.totalUnrealizedPL, Sub(marketVal, s.totalInvested))
            ELSE totals.totalUnrealizedPL]

RECURSIVE AccumulateAll(_, _)
AccumulateAll(totals, summaries) ==
    IF summaries = <<>> THEN totals
    ELSE AccumulateAll(Accumulate(totals, Head(summaries)), Tail(summaries))

\* s placed behind every element of the sorted list whose symbol is not greater
RECURSIVE InsertBySymbol(_, _)
InsertBySymbol(sorted, s) ==
    IF sorted = <<>> THEN <<s>>
    ELSE IF LocaleCompare(sorted[Len(sorted)].symbol, s.symbol) <= 0 THEN Append(sorted, s)
    ELSE Append(InsertBySymbol(SubSeq(sorted, 1, Len(sorted) - 1), s), sorted[Len(sorted)])

RECURSIVE SortSummariesFrom(_, _)
SortSummariesFrom(sorted, summaries) ==
    IF summaries = <<>> THEN sorted
    ELSE SortSummariesFrom(InsertBySymbol(sorted, Head(summaries)), Tail(summaries))

\* stockSummaries.sort((a, b) => a.symbol.localeCompare(b.symbol))
SortBySymbol(summaries) == SortSummariesFrom(<<>>, summaries)

\* the summaries in the order in which the groups are visited
StockSummaries(txs, prices) ==
    LET groups == GroupBySymbol(txs)
    IN  [i \in DOMAIN groups |-> Summarize(groups[i], prices)]

\* totals kept from the previous pass instead of starting from zero
CarriedTotals == stats

\* let totalRealizedPL = 0, totalCostBasis = 0, totalValue = 0, totalUnrealizedPL = 0
InitialTotals == ZeroTotals

\* the value of the useMemo: { portfolio, stats }
ComputePortfolio(txs, prices) ==
    LET summaries == StockSummaries(txs, prices)
    IN  [portfolio |-> SortBySymbol(summaries),
         stats |-> AccumulateAll(InitialTotals, summaries)]

\* a chart that shows the price of a share, not the value of the holding
AllocationByPrice(summaries) ==
    LET open == SelectSeq(summaries,
                    LAMBDA s : Gt(s.totalShares, Zero) /\ s.currentPrice # Null
                               /\ ~Falsy(s.currentPrice))
    IN  [i \in DOMAIN open |->
            [name |-> open[i].symbol, value |-> open[i].currentPrice]]

\* portfolio.filter(s => s.totalShares > 0 && s.currentPrice).map(...)
AllocationData(summaries) ==
    LET open == SelectSeq(summaries,
                    LAMBDA s : Gt(s.totalShares, Zero) /\ s.currentPrice # Null
                               /\ ~Falsy(s.currentPrice))
    IN  [i \in DOMAIN open |->
            [name |-> open[i].symbol,
             value |-> Mul(open[i].currentPrice, open[i].totalShares)]]

\* a percentage guarded against a zero cost basis only
UnrealizedPercentNonZeroBasis(cs) ==
    IF cs.totalCostBasis # Zero
    THEN Mul(Div(cs.totalUnrealizedPL, cs.totalCostBasis), Num(100))
    ELSE Zero

\* StatsCards: totalCostBasis > 0 ? (totalUnrealizedPL / totalCostBasis) * 100 : 0
UnrealizedPercent(cs) ==
    IF Gt(cs.totalCostBasis, Zero)
    THEN Mul(Div(cs.totalUnrealizedPL, cs.totalCostBasis), Num(100))
    ELSE Zero

----------------------------------------------------------------------------
(* The handlers *)

\* the pass reads the list and sorts the group arrays it has built itself
\* (groups[symbolKey] = []; push; txs.sort): the list in state is left as it is
ListAfterPass(txs) == txs

\* what a render derives from the list and the price map
Rendered(txs, prices) ==
    LET memo == ComputePortfolio(txs, prices)
    IN  /\ portfolio' = memo.portfolio
        /\ stats' = memo.stats
        /\ allocationData' = AllocationData(memo.portfolio)
        /\ unrealizedPercent' = UnrealizedPercent(memo.stats)

\* setTransactions / setCurrentPrices followed by the render they cause
Commit(txs, prices) ==
    /\ transactions' = ListAfterPass(txs)
    /\ currentPrices' = prices
    /\ Rendered(txs, prices)

\* (x || 'UNKNOWN').toUpperCase().trim()
NormalizeExchange(exchange) ==
    Trim(ToUpperCase(IF exchange = <<>> THEN UNKNOWN ELSE exchange))

\* (x || 'BUY').toString().toUpperCase().trim()
NormalizeType(type) == Trim(ToUpperCase(IF type = <<>> THEN BUY ELSE type))

\* normalizedData of handleSaveTransaction
NormalizedData(data) ==
    [data EXCEPT !.symbol = NormalizeSymbol(@),
                 !.exchange = NormalizeExchange(@),
                 !.type = NormalizeType(@)]

WithId(data, id) ==
    [id |-> id, date |-> data.date, type |-> data.type, symbol |-> data.symbol,
     name |-> data.name, shares |-> data.shares, price |-> data.price,
     account |-> data.account, exchange |-> data.exchange, currency |-> data.currency]

\* handleSaveTransaction for data without an id: the new transaction is appended
SaveNewTransaction(data, id) ==
    /\ drawn < MaxTx
    /\ drawn' = drawn + 1
    /\ Commit(Append(transactions, WithId(NormalizedData(data), id)), currentPrices)

\* an edit that takes the transaction out and appends its new version
SaveEditedAtEnd(data, id) ==
    /\ drawn' = drawn
    /\ Commit(IF \E i \in DOMAIN transactions : transactions[i].id = id
              THEN Append(SelectSeq(transactions, LAMBDA t : t.id # id),
                          WithId(NormalizedData(data), id))
              ELSE transactions,
              currentPrices)

\* handleSaveTransaction for data with an id: prev.map(t => t.id === id ? data : t)
SaveEditedTransaction(data, id) ==
    /\ drawn' = drawn
    /\ Commit([i \in DOMAIN transactions |->
                 IF transactions[i].id = id
                 THEN WithId(NormalizedData(data), id)
                 ELSE transactions[i]],
              currentPrices)

\* onDelete: setTransactions(t => t.filter(x => x.id !== id))
DeleteTransaction(id) ==
    /\ drawn' = drawn
    /\ Commit(SelectSeq(transactions, LAMBDA t : t.id # id), currentPrices)

\* t.type?.toString().toUpperCase().includes('SELL') ? 'SELL' : 'BUY'
Includes(s, sub) ==
    \E i \in 1..(Len(s) - Len(sub) + 1) : SubSeq(s, i, i + Len(sub) - 1) = sub

ImportedType(type) == IF Includes(ToUpperCase(type), SELL) THEN SELL ELSE BUY

ImportedData(data) ==
    [data EXCEPT !.type = ImportedType(@),
                 !.symbol = NormalizeSymbol(@),
                 !.exchange = NormalizeExchange(@)]

\* handleBulkImport: every new transaction gets an id and the batch is appended
ImportWithIds(batch, ids) ==
    /\ batch # <<>>
    /\ drawn + Len(batch) <= MaxTx
    /\ drawn' = drawn + Len(batch)
    /\ Commit(transactions \o
                [i \in DOMAIN batch |-> WithId(ImportedData(batch[i]), ids[i])],
              currentPrices)

\* handleBulkImport when the ids drawn are firstId, firstId + 1, ...
BulkImport(batch, firstId) ==
    ImportWithIds(batch, [i \in DOMAIN batch |-> firstId + i - 1])

\* a setCurrentPrices that keeps the prices returned only
ReplacedPrices(prev, prices) == prices

\* setCurrentPrices(prev => ({ ...prev, ...prices })) when a price fetch succeeds
MergePrices(prev, prices) ==
    [k \in DOMAIN prev \cup DOMAIN prices |->
        IF k \in DOMAIN prices THEN prices[k] ELSE prev[k]]

PricesFetched(prices) ==
    /\ drawn' = drawn
    /\ Commit(transactions, MergePrices(currentPrices, prices))

\* a render with the list and the prices as they are (React.StrictMode runs the
\* useMemo callback twice)
Recompute ==
    /\ drawn' = drawn
    /\ Commit(transactions, currentPrices)

----------------------------------------------------------------------------
(* Inputs *)

FORD == <<"F">>
TELUS == <<"T">>
BLACKBERRY == <<"B","B">>

\* a fraction of a share below 0.000001
Dust == <<1, 2000000>>

Order(date, type, symbol, name, shares, price, exchange, currency) ==
    [date |-> date, type |-> type, symbol |-> symbol, name |-> name,
     shares |-> shares, price |-> price, account |-> "TFSA",
     exchange |-> exchange, currency |-> currency]

FordOrder(date, type, shares, price) ==
    Order(date, type, FORD, <<"F","o","r","d">>, Num(shares), Num(price),
          <<"N","Y","S","E">>, "USD")

TelusOrder(type, shares, price) ==
    Order(1, type, TELUS, <<"T","e","l","u","s">>, Num(shares), Num(price),
          <<"T","S","X">>, "CAD")

BlackBerryOrder(type, shares, price) ==
    Order(1, type, BLACKBERRY, <<"B","B">>, shares, Num(price), <<"T","S","X">>, "CAD")

\* what the transaction form submits: Ford on the NYSE in USD, Telus on the
\* TSX in CAD, BlackBerry bought on the TSX in a fraction of a share
FormInputs ==
    {FordOrder(1, BUY, 1, 4), FordOrder(2, BUY, 2, 1), FordOrder(2, BUY, 2, 3),
     FordOrder(2, SELL, 2, 3), FordOrder(2, SELL, 1, 4),
     TelusOrder(BUY, 1, 2), TelusOrder(SELL, 1, 2), BlackBerryOrder(BUY, Dust, 2)}

\* what the form submits when a transaction is edited
EditInputs ==
    {FordOrder(2, BUY, 2, 3), FordOrder(2, SELL, 1, 4), TelusOrder(BUY, 1, 2)}

\* what the document import delivers
ImportBatches ==
    {<<[FordOrder(1, BUY, 1, 4) EXCEPT !.symbol = <<" ">>]>>,
     <<FordOrder(2, <<"b","o","u","g","h","t">>, 2, 1),
       [FordOrder(2, <<"S","e","l","l">>, 1, 4) EXCEPT !.symbol = <<" ","f">>,
                                                        !.exchange = <<>>]>>,
     <<TelusOrder(<<"s","e","l","l">>, 1, 2),
       [TelusOrder(BUY, 1, 2) EXCEPT !.shares = NaN]>>}

\* what a price fetch returns
PriceFeeds ==
    {[s \in {FORD, TELUS} |-> IF s = FORD THEN Num(5) ELSE Num(3)],
     [s \in {FORD} |-> Zero]}

\* an id that no transaction has been given yet
NewId == drawn + 1

----------------------------------------------------------------------------
(* Specification *)

NoUser == "none"

NoRequest == [symbols |-> {}, isManual |-> FALSE]

\* no call of withRetry has been made
NotCalled ==
    [status |-> "idle", given |-> 0, retries |-> 0, baseDelay |-> 0, calls |-> 0,
     delays |-> <<>>, error |-> [message |-> <<>>, status |-> 0]]

Init ==
    /\ transactions = <<>>
    /\ currentPrices = <<>>
    /\ portfolio = <<>>
    /\ stats = ZeroTotals
    /\ allocationData = <<>>
    /\ unrealizedPercent = Zero
    /\ drawn = 0
    /\ user = NoUser
    /\ isGuestMode = FALSE
    /\ isDataLoaded = FALSE
    /\ localStorage = <<>>
    /\ isFetching = FALSE
    /\ inFlight = 0
    /\ request = NoRequest
    /\ fetchedInSession = {}
    /\ cooldownRemaining = 0
    /\ priceError = Null
    /\ pending = FALSE
    /\ retry = NotCalled

\* the list, the prices and the accounting pass, the session left as it is
Next ==
    \/ \E data \in FormInputs : SaveNewTransaction(data, NewId) /\ UNCHANGED session
    \/ \E data \in EditInputs, i \in DOMAIN transactions :
            SaveEditedTransaction(data, transactions[i].id) /\ UNCHANGED session
    \/ \E i \in DOMAIN transactions :
            DeleteTransaction(transactions[i].id) /\ UNCHANGED session
    \/ \E batch \in ImportBatches : BulkImport(batch, NewId) /\ UNCHANGED session
    \/ \E prices \in PriceFeeds : PricesFetched(prices) /\ UNCHANGED session
    \/ Recompute /\ UNCHANGED session

Spec == Init /\ [][Next]_vars

----------------------------------------------------------------------------
(* The handlers with the ids that Math.random may draw *)

\* what Math.random().toString(36).substr(2, 9) may return
DrawnIds == {"i", "9"}

IdInputs == {FordOrder(1, BUY, 1, 4), TelusOrder(BUY, 1, 2)}

IdEdits == {TelusOrder(SELL, 1, 2)}

IdBatches == {<<FordOrder(2, <<"s","o","l","d">>, 2, 1), TelusOrder(<<"s","e","l","l">>, 1, 2)>>}

IdNext ==
    \/ \E data \in IdInputs, id \in DrawnIds :
            SaveNewTransaction(data, id) /\ UNCHANGED session
    \/ \E data \in IdEdits, id \in DrawnIds :
            SaveEditedTransaction(data, id) /\ UNCHANGED session
    \/ \E id \in DrawnIds : DeleteTransaction(id) /\ UNCHANGED session
    \/ \E batch \in IdBatches, ids \in [1..2 -> DrawnIds] :
            ImportWithIds(batch, ids) /\ UNCHANGED session

IdSpec == Init /\ [][IdNext]_vars

----------------------------------------------------------------------------
(* The session: the user, the storage and the price fetches *)

\* setCooldownRemaining(60)
CooldownSeconds == 60

\* portfolioSymbols: the distinct normalized symbols of the list
PortfolioSymbols(txs) == {SymbolKey(txs[i]) : i \in DOMAIN txs}

\* localStorage.setItem(txKey, ...); localStorage.setItem(pricesKey, ...)
SetItems(storage, id, txs, prices) ==
    [k \in DOMAIN storage \cup {id} |->
        IF k = id THEN [transactions |-> txs, prices |-> prices] ELSE storage[k]]

\* an auto-save that does not look at the user
AutoSaveWhateverUser(txs, prices, u) ==
    localStorage' = IF isDataLoaded
                    THEN SetItems(localStorage, u, txs, prices)
                    ELSE localStorage

\* the auto-save effect in a render with the list txs, the prices and user u
AutoSave(txs, prices, u) ==
    localStorage' = IF isDataLoaded /\ u # NoUser
                    THEN SetItems(localStorage, u, txs, prices)
                    ELSE localStorage

\* isManual ? symbolsToFetch : symbolsToFetch.filter(s => !currentPrices[s])
Filtered(symbols, isManual, prices) ==
    IF isManual THEN symbols ELSE {sym \in symbols : CurrentPrice(prices, sym) = Null}

\* early returns that do not look at the guard of a fetch under way
StartsFetchWhileFetching(symbols, isManual, prices) ==
    /\ symbols # {}
    /\ cooldownRemaining = 0
    /\ Filtered(symbols, isManual, prices) # {} \/ isManual

\* early returns that do not look at the cooldown
StartsFetchInCooldown(symbols, isManual, prices) ==
    /\ ~isFetching
    /\ symbols # {}
    /\ Filtered(symbols, isManual, prices) # {} \/ isManual

\* whether updateMarketPrices gets past its two early returns
StartsFetch(symbols, isManual, prices) ==
    /\ ~isFetching
    /\ symbols # {}
    /\ cooldownRemaining = 0
    /\ Filtered(symbols, isManual, prices) # {} \/ isManual

\* updateMarketPrices up to its await
UpdateMarketPrices(symbols, isManual, prices) ==
    IF StartsFetch(symbols, isManual, prices)
    THEN /\ isFetching' = TRUE
         /\ inFlight' = inFlight + 1
         /\ priceError' = Null
         /\ request' = [symbols |-> Filtered(symbols, isManual, prices),
                        isManual |-> isManual]
    ELSE UNCHANGED <<isFetching, request, inFlight, priceError>>

\* the effects that run after a handler has set the list: the fetch effect on
\* [portfolioSymbols, isDataLoaded], then the auto-save effect
AfterListChange ==
    /\ ~pending
    /\ IF isDataLoaded
       THEN UpdateMarketPrices(PortfolioSymbols(transactions'), FALSE, currentPrices')
       ELSE UNCHANGED <<isFetching, request, inFlight, priceError>>
    /\ AutoSave(transactions', currentPrices', user)
    /\ UNCHANGED <<user, isGuestMode, isDataLoaded, fetchedInSession, cooldownRemaining,
                   pending, retry>>

\* the dashboard, with its form, table and buttons, is rendered for a user or a guest
DashboardShown == user # NoUser \/ isGuestMode

AddTransaction(data, id) ==
    DashboardShown /\ SaveNewTransaction(data, id) /\ AfterListChange

EditTransaction(data, id) ==
    DashboardShown /\ SaveEditedTransaction(data, id) /\ AfterListChange

RemoveTransaction(id) ==
    DashboardShown /\ DeleteTransaction(id) /\ AfterListChange

ImportTransactions(batch, firstId) ==
    DashboardShown /\ BulkImport(batch, firstId) /\ AfterListChange

\* the manual refresh button: updateMarketPrices(portfolioSymbols, true)
ManualRefresh ==
    /\ DashboardShown /\ ~pending
    /\ StartsFetch(PortfolioSymbols(transactions), TRUE, currentPrices)
    /\ UpdateMarketPrices(PortfolioSymbols(transactions), TRUE, currentPrices)
    /\ UNCHANGED <<ledger, user, isGuestMode, isDataLoaded, localStorage,
                   fetchedInSession, cooldownRemaining, pending, retry>>

\* fetchCurrentPrices resolves: the prices are merged, the symbols asked for are
\* noted, the guard is released, and the auto-save effect sees the new prices
FetchSucceeded(prices) ==
    /\ inFlight > 0 /\ ~pending
    /\ inFlight' = inFlight - 1
    /\ PricesFetched(prices)
    /\ fetchedInSession' = fetchedInSession \cup request.symbols
    /\ isFetching' = FALSE
    /\ request' = NoRequest
    /\ AutoSave(transactions', currentPrices', user)
    /\ UNCHANGED <<user, isGuestMode, isDataLoaded, cooldownRemaining, priceError,
                   pending, retry>>

\* msg.includes("429") || msg.includes("quota") || msg.includes("RESOURCE_EXHAUSTED")
IsRateLimit(msg) ==
    \/ Includes(msg, <<"4","2","9">>)
    \/ Includes(msg, <<"q","u","o","t","a">>)
    \/ Includes(msg, <<"R","E","S","O","U","R","C","E","_","E","X","H","A","U","S","T","E","D">>)

\* "Quota Limit - Waiting 60s"
QuotaLimit ==
    <<"Q","u","o","t","a"," ","L","i","m","i","t"," ","-"," ",
      "W","a","i","t","i","n","g"," ","6","0","s">>

\* "Price fetch failed"
PriceFetchFailed ==
    <<"P","r","i","c","e"," ","f","e","t","c","h"," ","f","a","i","l","e","d">>

\* a catch block without the finally block
FetchFailedHoldingGuard(msg) ==
    /\ inFlight > 0 /\ ~pending
    /\ inFlight' = inFlight - 1
    /\ request' = NoRequest
    /\ priceError' = IF IsRateLimit(msg) THEN QuotaLimit ELSE PriceFetchFailed
    /\ cooldownRemaining' = IF IsRateLimit(msg) THEN CooldownSeconds ELSE cooldownRemaining
    /\ UNCHANGED <<ledger, user, isGuestMode, isDataLoaded, localStorage, fetchedInSession,
                   pending, retry, isFetching>>

\* fetchCurrentPrices rejects with the message msg
FetchFailed(msg) ==
    /\ inFlight > 0 /\ ~pending
    /\ inFlight' = inFlight - 1
    /\ isFetching' = FALSE
    /\ request' = NoRequest
    /\ priceError' = IF IsRateLimit(msg) THEN QuotaLimit ELSE PriceFetchFailed
    /\ cooldownRemaining' = IF IsRateLimit(msg) THEN CooldownSeconds ELSE cooldownRemaining
    /\ UNCHANGED <<ledger, user, isGuestMode, isDataLoaded, localStorage, fetchedInSession,
                   pending, retry>>

\* a timer whose render leaves the error as it is
TickKeepingError ==
    /\ cooldownRemaining > 0 /\ ~pending
    /\ cooldownRemaining' = cooldownRemaining - 1
    /\ UNCHANGED <<ledger, user, isGuestMode, isDataLoaded, localStorage, isFetching,
                   request, inFlight, fetchedInSession, priceError, pending, retry>>

\* the cooldown timer: setCooldownRemaining(c => c - 1) after a second, and the
\* effect of the render that follows, which clears a "Limit" error at 0
Tick ==
    /\ cooldownRemaining > 0 /\ ~pending
    /\ cooldownRemaining' = cooldownRemaining - 1
    /\ priceError' = IF /\ cooldownRemaining' = 0
                        /\ priceError # Null
                        /\ Includes(priceError, <<"L","i","m","i","t">>)
                     THEN Null
                     ELSE priceError
    /\ UNCHANGED <<ledger, user, isGuestMode, isDataLoaded, localStorage, isFetching,
                   request, inFlight, fetchedInSession, pending, retry>>

\* the effects of the render in which the user has become u or guest mode has
\* become guest: the data loading effect sets the state to what it loads, and
\* the auto-save effect of the same render, when user is among its changed
\* dependencies, still sees the list, the prices and the isDataLoaded of before
LoadFor(u, guest) ==
    LET saved == u # NoUser /\ u \in DOMAIN localStorage
        cleared == u = NoUser /\ ~guest
        kept == u = NoUser /\ guest
    IN  /\ ~pending
        /\ user' = u
        /\ isGuestMode' = guest
        /\ isDataLoaded' = TRUE
        /\ drawn' = drawn
        /\ Commit(IF saved THEN localStorage[u].transactions
                  ELSE IF kept THEN transactions ELSE <<>>,
                  IF saved THEN localStorage[u].prices
                  ELSE IF cleared THEN <<>> ELSE currentPrices)
        /\ fetchedInSession' =
                IF saved THEN fetchedInSession \cup DOMAIN localStorage[u].prices
                ELSE IF cleared THEN {} ELSE fetchedInSession
        /\ AutoSave(transactions, currentPrices, u)
        /\ pending' = ~kept
        /\ UNCHANGED <<isFetching, request, inFlight, priceError, cooldownRemaining, retry>>

\* the render of the state the load effect has set: the fetch effect sees a new
\* portfolioSymbols, the auto-save effect a new list
Rerender ==
    /\ pending
    /\ pending' = FALSE
    /\ UpdateMarketPrices(PortfolioSymbols(transactions), FALSE, currentPrices)
    /\ AutoSave(transactions, currentPrices, user)
    /\ UNCHANGED <<ledger, user, isGuestMode, isDataLoaded, fetchedInSession,
                   cooldownRemaining, retry>>

\* useAuth() settles on user u, at start, at a login or at a logout
AuthSettled(u) ==
    /\ u # user \/ ~isDataLoaded
    /\ LoadFor(u, isGuestMode)

\* the Demo Mode button of the landing page: setIsGuestMode(true)
EnterGuestMode ==
    /\ isDataLoaded /\ user = NoUser /\ ~isGuestMode
    /\ LoadFor(user, TRUE)

Users == {"ann"}

\* the number of transactions entered in one run of a session
MaxSessionTx == 2

AppInputs == {FordOrder(1, BUY, 1, 4), TelusOrder(BUY, 1, 2)}

AppEdits == {FordOrder(1, BUY, 2, 1)}

AppBatches == {<<TelusOrder(<<"s","o","l","d">>, 1, 2)>>}

\* the messages of the errors fetchCurrentPrices may reject with
Failures ==
    {<<"4","2","9">>,
     <<"n","o"," ","q","u","o","t","a">>,
     <<"R","E","S","O","U","R","C","E","_","E","X","H","A","U","S","T","E","D">>,
     <<"5","0","3">>}

\* those that name no rate limit
OtherFailures == {msg \in Failures : ~IsRateLimit(msg)}

\* the prices the service finds for the symbols asked for
Quote(symbols) == [sym \in symbols |-> IF sym = FORD THEN Num(5) ELSE Num(3)]

\* what fetchCurrentPrices may resolve to: a price for every symbol, or for none
Responses(symbols) == {Quote(symbols), <<>>}

\* a later and partial answer: another price, for one of the symbols asked for
Requote(symbols) == [sym \in symbols \cap {FORD} |-> Num(6)]

Answers(symbols) == Responses(symbols) \cup {Requote(symbols)}

\* Logins, logouts and guest sessions with a price service that answers or fails
\* without a rate limit, so that no cooldown is ever open
AppNext ==
    \/ \E u \in Users \cup {NoUser} : AuthSettled(u)
    \/ Rerender
    \/ EnterGuestMode
    \/ \E data \in AppInputs : drawn < MaxSessionTx /\ AddTransaction(data, NewId)
    \/ \E data \in AppEdits, i \in DOMAIN transactions :
            EditTransaction(data, transactions[i].id)
    \/ \E i \in DOMAIN transactions : RemoveTransaction(transactions[i].id)
    \/ \E batch \in AppBatches :
            drawn < MaxSessionTx /\ ImportTransactions(batch, NewId)
    \/ ManualRefresh
    \/ \E prices \in Responses(request.symbols) : FetchSucceeded(prices)
    \/ \E msg \in OtherFailures : FetchFailed(msg)

AppSpec == Init /\ [][AppNext]_vars

\* A guest session with a price service that may also answer with a rate limit
FetchNext ==
    \/ AuthSettled(NoUser)
    \/ Rerender
    \/ EnterGuestMode
    \/ \E data \in AppInputs : drawn < MaxSessionTx /\ AddTransaction(data, NewId)
    \/ \E data \in AppEdits, i \in DOMAIN transactions :
            EditTransaction(data, transactions[i].id)
    \/ \E i \in DOMAIN transactions : RemoveTransaction(transactions[i].id)
    \/ ManualRefresh
    \/ \E prices \in Answers(request.symbols) : FetchSucceeded(prices)
    \/ \E msg \in Failures : FetchFailed(msg)
    \/ Tick

FetchSpec == Init /\ [][FetchNext]_vars

\* the promise of fetchCurrentPrices is rejected
FetchRejects == \E msg \in Failures : FetchFailed(msg)

\* the same session with a price service that leaves no request unanswered: a
\* rejection is possible exactly while a promise is awaited and is ruled out by
\* a result, so a promise awaited for ever is what its weak fairness excludes
AnsweredFetchSpec == FetchSpec /\ WF_vars(FetchRejects)

\* the same session with a timer that fires: the timeout set by the cooldown
\* effect is cleared only when cooldownRemaining or priceError changes
TimedFetchSpec == FetchSpec /\ WF_vars(Tick)

----------------------------------------------------------------------------
(* withRetry *)

\* error?.message?.includes("429") || error?.status === 429 ||
\* error?.message?.includes("RESOURCE_EXHAUSTED")
IsRetryable(error) ==
    \/ Includes(error.message, <<"4","2","9">>)
    \/ error.status = 429
    \/ Includes(error.message,
                <<"R","E","S","O","U","R","C","E","_","E","X","H","A","U","S","T","E","D">>)

\* everything but the parts of the state withRetry works on
outsideRetry ==
    <<ledger, user, isGuestMode, isDataLoaded, localStorage, isFetching, request,
      inFlight, fetchedInSession, cooldownRemaining, priceError, pending>>

\* withRetry(fn, retries, baseDelay) is called and calls fn
CallWithRetry(retries, baseDelay) ==
    /\ retry.status = "idle"
    /\ retry' = [retry EXCEPT !.status = "calling", !.given = retries,
                              !.retries = retries, !.baseDelay = baseDelay, !.calls = 1]
    /\ UNCHANGED outsideRetry

\* await fn() gives a result, which is returned
FnResolves ==
    /\ retry.status = "calling"
    /\ retry' = [retry EXCEPT !.status = "returned"]
    /\ UNCHANGED outsideRetry

\* a catch block that waits and calls again after any error
FnRejectsRetryingAll(error, jitter) ==
    /\ retry.status = "calling"
    /\ retry' = IF retry.retries > 0
                THEN [retry EXCEPT !.status = "waiting", !.error = error,
                                   !.delays = Append(@, [base |-> retry.baseDelay,
                                                         delay |-> retry.baseDelay + jitter])]
                ELSE [retry EXCEPT !.status = "thrown", !.error = error]
    /\ UNCHANGED outsideRetry

\* await fn() throws error: the catch block waits baseDelay and a jitter below
\* 1000 before it calls again, or rethrows
FnRejects(error, jitter) ==
    /\ retry.status = "calling"
    /\ retry' = IF IsRetryable(error) /\ retry.retries > 0
                THEN [retry EXCEPT !.status = "waiting", !.error = error,
                                   !.delays = Append(@, [base |-> retry.baseDelay,
                                                         delay |-> retry.baseDelay + jitter])]
                ELSE [retry EXCEPT !.status = "thrown", !.error = error]
    /\ UNCHANGED outsideRetry

\* the wait is over: return withRetry(fn, retries - 1, baseDelay * 2), which calls fn
CallAgain ==
    /\ retry.status = "waiting"
    /\ retry' = [retry EXCEPT !.status = "calling", !.retries = @ - 1,
                              !.baseDelay = @ * 2, !.calls = @ + 1]
    /\ UNCHANGED outsideRetry

\* the default arguments of withRetry
DefaultRetries == 2
DefaultBaseDelay == 3000

\* the arguments fetchCurrentPrices passes
FetchRetries == 1
FetchBaseDelay == 5000

\* the arguments of the three callers, and a call that allows no retry
RetryArguments ==
    {<<DefaultRetries, DefaultBaseDelay>>, <<FetchRetries, FetchBaseDelay>>,
     <<0, DefaultBaseDelay>>}

\* the errors fn may throw: with or without a message, with or without a status
Errors ==
    [message : Failures \cup {<<>>}, status : {0, 429, 503}]

\* Math.random() * 1000, at its ends
Jitters == {0, 999}

RetryNext ==
    \/ \E a \in RetryArguments : CallWithRetry(a[1], a[2])
    \/ FnResolves
    \/ \E error \in Errors, jitter \in Jitters : FnRejects(error, jitter)
    \/ CallAgain

RetrySpec == Init /\ [][RetryNext]_vars

----------------------------------------------------------------------------
(* Properties *)

Numeric(t) == ~IsNaN(t.shares) /\ ~IsNaN(t.price)

IsBuy(t) == Numeric(t) /\ t.type = BUY

IsSell(t) == Numeric(t) /\ t.type # BUY

RECURSIVE SumOf(_, _)
SumOf(F(_), seq) == IF seq = <<>> THEN Zero ELSE Add(F(Head(seq)), SumOf(F, Tail(seq)))

SharesOf(t) == t.shares

CostOf(t) == Mul(t.shares, t.price)

Summaries == {portfolio[i] : i \in DOMAIN portfolio}

\* the running state after the first k transactions of a group
StateAfter(txs, k) == Replay(SubSeq(txs, 1, k))

Geq(x, y) == ~IsNaN(x) /\ ~IsNaN(y) /\ ~Lt(x, y)

OnlyBuys(s) == \A k \in DOMAIN s.transactions : IsBuy(s.transactions[k])

BuyOnlyTotals(s) ==
    /\ s.totalShares = SumOf(SharesOf, s.transactions)
    /\ s.totalInvested = SumOf(CostOf, s.transactions)
    /\ s.avgCost = Div(s.totalInvested, s.totalShares)

\* C1 as stated: a group of BUY transactions only has totalShares = the sum of
\* the bought shares, totalInvested = the sum of shares * price and
\* avgCost = totalInvested / totalShares
C1_BuyOnlyGroup == \A s \in Summaries : OnlyBuys(s) => BuyOnlyTotals(s)

\* C1 amended: a group of BUY transactions only whose bought shares sum to at
\* least 0.000001 has totalShares = the sum of the bought shares,
\* totalInvested = the sum of shares * price and avgCost = totalInvested / totalShares
C1_BuyOnlyGroupAboveEpsilon ==
    \A s \in Summaries :
        OnlyBuys(s) /\ Geq(SumOf(SharesOf, s.transactions), EPSILON) => BuyOnlyTotals(s)

\* two buys at different prices whose average cost is not a whole number
C1_Witness ==
    \E s \in Summaries :
        /\ OnlyBuys(s)
        /\ Len(s.transactions) >= 2
        /\ s.transactions[1].price # s.transactions[2].price
        /\ s.avgCost[2] > 1

\* C2: a SELL of s shares at price p out of h >= s held shares with average cost
\* a adds s * (p - a) to realizedPL, takes s off the held shares and s * a off the
\* cost, and leaves the average cost of the remaining shares at a; when it is the
\* last transaction of the group and shares remain, the summary shows these values
C2_SellWithinHolding ==
    \A s \in Summaries : \A k \in DOMAIN s.transactions :
        LET t == s.transactions[k]
            before == StateAfter(s.transactions, k - 1)
            after == StateAfter(s.transactions, k)
            a == Div(before.totalCost, before.sharesHeld)
        IN  IsSell(t) /\ Gt(before.sharesHeld, Zero) /\ Geq(before.sharesHeld, t.shares) =>
                /\ after.realizedPL = Add(before.realizedPL, Mul(t.shares, Sub(t.price, a)))
                /\ after.sharesHeld = Sub(before.sharesHeld, t.shares)
                /\ after.totalCost = Sub(before.totalCost, Mul(t.shares, a))
                /\ Gt(after.sharesHeld, Zero) => Div(after.totalCost, after.sharesHeld) = a
                /\ k = Len(s.transactions) /\ Geq(after.sharesHeld, EPSILON) =>
                        /\ s.totalShares = Sub(before.sharesHeld, t.shares)
                        /\ s.totalInvested = Mul(s.totalShares, a)
                        /\ s.avgCost = a
                        /\ s.realizedPL = after.realizedPL

\* a partial sale at a price above the average cost of shares bought at two prices
C2_Witness ==
    \E s \in Summaries :
        LET n == Len(s.transactions)
        IN  /\ n = 3
            /\ IsBuy(s.transactions[1]) /\ IsBuy(s.transactions[2])
            /\ s.transactions[1].price # s.transactions[2].price
            /\ IsSell(s.transactions[3])
            /\ Gt(s.totalShares, Zero)
            /\ Gt(s.realizedPL, Zero)

Currencies == {"USD", "CAD"}

\* the totals the cards of a currency are given: the memo returns one set of totals
StatsFor(currency) == stats

InCurrency(txs, currency) == SelectSeq(txs, LAMBDA t : t.currency = currency)

\* C3: a step that leaves the price map and the transactions held in a currency as
\* they are, whatever it does to the transactions of the other currency, leaves
\* the totals of that currency unchanged
C3_CurrencyIsolation ==
    [][\A currency \in Currencies :
          /\ currentPrices' = currentPrices
          /\ InCurrency(transactions, currency) # <<>>
          /\ InCurrency(transactions', currency) = InCurrency(transactions, currency)
          => StatsFor(currency)' = StatsFor(currency)]_vars

WithinEpsilon(x) == ~IsNaN(x) /\ Lt(x, EPSILON) /\ Gt(x, Neg(EPSILON))

\* C4: a group whose net held shares after replay are within 0.000001 of zero,
\* as when the sold shares equal the bought shares, has totalShares = 0 and
\* totalInvested = 0
C4_ClosedGroupIsZero ==
    \A s \in Summaries :
        LET st == Replay(s.transactions)
            bought == SumOf(SharesOf, SelectSeq(s.transactions, IsBuy))
            sold == SumOf(SharesOf, SelectSeq(s.transactions, IsSell))
        IN  /\ WithinEpsilon(st.sharesHeld) => s.totalShares = Zero /\ s.totalInvested = Zero
            /\ bought = sold => s.totalShares = Zero /\ s.totalInvested = Zero

\* a group bought back to zero shares with cost left over, beside a group
\* holding less than 0.000001 shares
C4_Witness ==
    /\ \E s \in Summaries :
          LET st == Replay(s.transactions)
          IN  st.sharesHeld = Zero /\ st.totalCost # Zero /\ s.totalInvested = Zero
    /\ \E s \in Summaries :
          LET st == Replay(s.transactions)
          IN  Gt(st.sharesHeld, Zero) /\ Lt(st.sharesHeld, EPSILON) /\ s.totalShares = Zero

SellStep(before, t, avg) ==
    [sharesHeld |-> Sub(before.sharesHeld, t.shares),
     totalCost |-> Sub(before.totalCost, Mul(t.shares, avg)),
     realizedPL |-> Add(before.realizedPL, Sub(Mul(t.shares, t.price), Mul(t.shares, avg)))]

\* C5 as stated: every SELL, also one of more shares than are held and one
\* applied to negative holdings, is applied with avg = totalCost / sharesHeld,
\* avg being 0 only when sharesHeld is 0
C5_SellAlwaysApplied ==
    \A s \in Summaries : \A k \in DOMAIN s.transactions :
        LET t == s.transactions[k]
            before == StateAfter(s.transactions, k - 1)
            avg == IF before.sharesHeld = Zero THEN Zero
                   ELSE Div(before.totalCost, before.sharesHeld)
        IN  IsSell(t) => StateAfter(s.transactions, k) = SellStep(before, t, avg)

\* C5 amended: every SELL, also one of more shares than are held and one
\* applied to negative holdings, is applied with avg = totalCost / sharesHeld
\* when sharesHeld is positive and avg = 0 when sharesHeld is zero or negative
C5_SellAlwaysAppliedPositiveAverage ==
    \A s \in Summaries : \A k \in DOMAIN s.transactions :
        LET t == s.transactions[k]
            before == StateAfter(s.transactions, k - 1)
            avg == IF Gt(before.sharesHeld, Zero)
                   THEN Div(before.totalCost, before.sharesHeld)
                   ELSE Zero
        IN  IsSell(t) => StateAfter(s.transactions, k) = SellStep(before, t, avg)

\* a SELL of more shares than are held that drives the holdings negative
C5_Witness ==
    \E s \in Summaries : \E k \in DOMAIN s.transactions :
        LET t == s.transactions[k]
            before == StateAfter(s.transactions, k - 1)
            after == StateAfter(s.transactions, k)
        IN  /\ IsSell(t)
            /\ Gt(before.sharesHeld, Zero)
            /\ Gt(t.shares, before.sharesHeld)
            /\ Lt(after.sharesHeld, Zero)

\* C6: every summary has totalShares >= 0, and a summary with totalShares = 0
\* has avgCost = 0 and totalInvested = 0, avgCost never being NaN
C6_SummaryIsWellFormed ==
    \A s \in Summaries :
        /\ Geq(s.totalShares, Zero)
        /\ ~IsNaN(s.avgCost)
        /\ s.totalShares = Zero => s.avgCost = Zero /\ s.totalInvested = Zero

\* a group left oversold by its replay, with negative shares and cost
C6_Witness ==
    \E s \in Summaries :
        LET st == Replay(s.transactions)
        IN  /\ Lt(st.sharesHeld, Zero)
            /\ Lt(st.totalCost, Zero)
            /\ s.totalShares = Zero

\* the currency of a group is that of its first transaction in date order
GroupCurrency(s) == s.transactions[1].currency

SummariesIn(currency) == SelectSeq(portfolio, LAMBDA s : GroupCurrency(s) = currency)

HasKnownPrice(s) == s.currentPrice # Null /\ Gt(s.totalShares, Zero)

MarketValue(s) == Mul(s.currentPrice, s.totalShares)

ValueOf(s) == IF HasKnownPrice(s) THEN MarketValue(s) ELSE s.totalInvested

UnrealizedOf(s) == IF HasKnownPrice(s) THEN Sub(MarketValue(s), s.totalInvested) ELSE Zero

InvestedOf(s) == s.totalInvested

RealizedOf(s) == s.realizedPL

ExpectedTotals(summaries) ==
    [totalValue |-> SumOf(ValueOf, summaries),
     totalCostBasis |-> SumOf(InvestedOf, summaries),
     totalRealizedPL |-> SumOf(RealizedOf, summaries),
     totalUnrealizedPL |-> SumOf(UnrealizedOf, summaries)]

\* C7: the totals of each currency that has a group are sums over the groups
\* of that currency only: the cost basis sums totalInvested, the realized P/L
\* sums realizedPL, the value sums currentPrice * totalShares where a price is
\* known and shares are held and totalInvested elsewhere, the unrealized P/L
\* sums market value less totalInvested over the groups with a market value
C7_TotalsPerCurrency ==
    \A currency \in Currencies :
        SummariesIn(currency) # <<>> => StatsFor(currency) = ExpectedTotals(SummariesIn(currency))

C9_UnrealizedPercent ==
    /\ ~IsNaN(unrealizedPercent)
    /\ IF Gt(stats.totalCostBasis, Zero)
       THEN Mul(unrealizedPercent, stats.totalCostBasis) = Mul(stats.totalUnrealizedPL, Num(100))
       ELSE unrealizedPercent = Zero

\* a negative cost basis beside an unrealized gain
C9_Witness ==
    /\ Lt(stats.totalCostBasis, Zero)
    /\ Gt(stats.totalUnrealizedPL, Zero)
    /\ unrealizedPercent = Zero

AllOpenPositionsPriced ==
    \A s \in Summaries : Gt(s.totalShares, Zero) => s.currentPrice # Null

SliceValue(slice) == slice.value

\* value / totalValue * 100, as the legend of the chart shows it
SlicePercent(slice) == Mul(Div(slice.value, stats.totalValue), Num(100))

\* C10: when every position with shares has a known price, the values of the
\* allocation slices sum to the totalValue they are divided by, so the
\* percentages of the slices, when there are any, sum to 100
C10_AllocationSumsToValue ==
    AllOpenPositionsPriced =>
        /\ SumOf(SliceValue, allocationData) = stats.totalValue
        /\ allocationData # <<>> => SumOf(SlicePercent, allocationData) = Num(100)

\* two priced holdings of more than one share in all, beside a closed position
C10_Witness ==
    /\ AllOpenPositionsPriced
    /\ Len(allocationData) = 2
    /\ \E i \in DOMAIN allocationData : allocationData[i].value # portfolio[i].currentPrice
    /\ \E s \in Summaries : s.totalShares = Zero

\* C11: normalization is idempotent: the symbol, exchange and type that
\* handleSaveTransaction or handleBulkImport stored are returned unchanged when
\* the normalization of either handler is applied to them again
C11_NormalizationIsIdempotent ==
    \A i \in DOMAIN transactions :
        LET t == transactions[i]
        IN  /\ NormalizedData(t) = t \/ ImportedData(t) = t
            /\ NormalizeSymbol(t.symbol) = t.symbol
            /\ NormalizeExchange(t.exchange) = t.exchange

\* the transactions a summary would list if the key were the stored symbol
StoredUnder(symbol) == SelectSeq(transactions, LAMBDA t : t.symbol = symbol)

SameLetters(a, b) == Trim(ToUpperCase(a)) = Trim(ToUpperCase(b))

\* C12: one summary is emitted for each distinct normalized symbol, every
\* transaction is listed by exactly one summary, the one for its normalized
\* symbol, transactions whose stored symbols differ only in case or surrounding
\* white space are listed by the same summary, and the key of the summary that
\* lists a transaction equals the symbol stored in that transaction
C12_GroupingPartitions ==
    /\ \A i, j \in DOMAIN portfolio : portfolio[i].symbol = portfolio[j].symbol => i = j
    /\ {portfolio[i].symbol : i \in DOMAIN portfolio}
         = {NormalizeSymbol(transactions[k].symbol) : k \in DOMAIN transactions}
    /\ \A k \in DOMAIN transactions :
          \A i \in DOMAIN portfolio :
             (\E n \in DOMAIN portfolio[i].transactions :
                 portfolio[i].transactions[n] = transactions[k])
             <=> portfolio[i].symbol = NormalizeSymbol(transactions[k].symbol)
    /\ \A i \in DOMAIN portfolio :
          Len(portfolio[i].transactions)
            = Len(SelectSeq(transactions,
                            LAMBDA t : NormalizeSymbol(t.symbol) = portfolio[i].symbol))
    /\ \A k, l \in DOMAIN transactions :
          SameLetters(transactions[k].symbol, transactions[l].symbol) =>
             NormalizeSymbol(transactions[k].symbol) = NormalizeSymbol(transactions[l].symbol)
    /\ \A k \in DOMAIN transactions :
          NormalizeSymbol(transactions[k].symbol) = transactions[k].symbol

PositionOf(t) == CHOOSE k \in DOMAIN transactions : transactions[k] = t

\* C13: the transactions a summary lists are in non-decreasing date order, those
\* of equal date in the order they have in the transaction list, and the
\* figures of the summary are those of the replay in that order
C13_ReplayInStableDateOrder ==
    \A s \in Summaries :
        /\ \A n, m \in DOMAIN s.transactions :
              n < m =>
                 /\ s.transactions[n].date <= s.transactions[m].date
                 /\ s.transactions[n].date = s.transactions[m].date =>
                       PositionOf(s.transactions[n]) < PositionOf(s.transactions[m])
        /\ LET st == CloseOut(Replay(s.transactions))
           IN  /\ s.totalShares = st.sharesHeld
               /\ s.totalInvested = st.totalCost
               /\ s.realizedPL = st.realizedPL

\* a group of three with two transactions of one date, listed behind a
\* transaction of an earlier date that came into the list after them
C13_Witness ==
    \E s \in Summaries :
        /\ Len(s.transactions) = 3
        /\ s.transactions[1].date < s.transactions[2].date
        /\ s.transactions[2].date = s.transactions[3].date
        /\ s.transactions[2].type # s.transactions[3].type
        /\ PositionOf(s.transactions[1]) > PositionOf(s.transactions[3])

Without(seq, k) == SubSeq(seq, 1, k - 1) \o SubSeq(seq, k + 1, Len(seq))

\* the summary of the group of s computed with its k-th transaction left out
SummaryWithout(s, k) ==
    Summarize([symbol |-> s.symbol, txs |-> Without(s.transactions, k)], currentPrices)

Figures(s) ==
    [totalShares |-> s.totalShares, avgCost |-> s.avgCost, totalInvested |-> s.totalInvested,
     realizedPL |-> s.realizedPL, currentPrice |-> s.currentPrice]

\* C14 as stated: a transaction whose shares or price is NaN leaves the running
\* state of the replay as it was, and the summary equals the one computed
\* from the group without that transaction
C14_NaNIsSkipped ==
    \A s \in Summaries : \A k \in DOMAIN s.transactions :
        ~Numeric(s.transactions[k]) =>
            /\ StateAfter(s.transactions, k) = StateAfter(s.transactions, k - 1)
            /\ s = SummaryWithout(s, k)

\* C14 amended: a transaction whose shares or price is NaN leaves the running
\* state of the replay as it was, and totalShares, avgCost, totalInvested,
\* realizedPL and currentPrice of the summary, none of them NaN, equal those
\* computed from the group without that transaction, which the summary still lists
C14_NaNIsSkippedInFigures ==
    \A s \in Summaries : \A k \in DOMAIN s.transactions :
        ~Numeric(s.transactions[k]) =>
            /\ StateAfter(s.transactions, k) = StateAfter(s.transactions, k - 1)
            /\ Figures(s) = Figures(SummaryWithout(s, k))
            /\ ~IsNaN(s.totalShares) /\ ~IsNaN(s.avgCost)
            /\ ~IsNaN(s.totalInvested) /\ ~IsNaN(s.realizedPL)

\* a transaction without a numeric share count replayed after a sale and
\* before a purchase
C14_Witness ==
    \E s \in Summaries : \E k \in DOMAIN s.transactions :
        /\ ~Numeric(s.transactions[k])
        /\ 1 < k /\ k < Len(s.transactions)
        /\ StateAfter(s.transactions, k - 1).realizedPL # Zero
        /\ IsBuy(s.transactions[k + 1])

IsClosed(s) == s.totalShares = Zero

OpenPositions == SelectSeq(portfolio, LAMBDA s : ~IsClosed(s))

ClosedPositions == SelectSeq(portfolio, IsClosed)

\* C15: a closed position has no allocation slice and adds nothing to
\* totalCostBasis, totalUnrealizedPL and totalValue, so the totals and the
\* percentage are those of the open positions alone, while totalRealizedPL is
\* that of the open positions plus the realizedPL of every closed position
C15_ClosedPositionsCountOnlyAsRealized ==
    LET open == ExpectedTotals(OpenPositions)
    IN  /\ \A s \in Summaries :
              IsClosed(s) => \A i \in DOMAIN allocationData : allocationData[i].name # s.symbol
        /\ stats.totalCostBasis = open.totalCostBasis
        /\ stats.totalUnrealizedPL = open.totalUnrealizedPL
        /\ stats.totalValue = open.totalValue
        /\ unrealizedPercent = UnrealizedPercent(open)
        /\ stats.totalRealizedPL
             = Add(open.totalRealizedPL, SumOf(RealizedOf, ClosedPositions))

\* a closed position with a price and a realized gain beside an open position
C15_Witness ==
    /\ \E s \in Summaries :
          IsClosed(s) /\ s.currentPrice # Null /\ Gt(s.realizedPL, Zero)
              /\ Replay(s.transactions).totalCost # Zero
    /\ \E s \in Summaries : ~IsClosed(s) /\ s.currentPrice # Null
    /\ allocationData # <<>>

\* C16: the transactions of the list have pairwise distinct ids
C16_IdsAreDistinct ==
    \A i, j \in DOMAIN transactions : i # j => transactions[i].id # transactions[j].id

\* the places of the list whose transaction has another id than id
Survivors(id) == {i \in DOMAIN transactions : transactions[i].id # id}

\* C17: saving data without an id appends one transaction and leaves the others
\* as they are; saving data with an id replaces, in place, exactly the
\* transactions of that id, the list keeping its length and order (nothing
\* changes if no transaction has the id); deleting an id removes exactly the
\* transactions of that id and keeps the order of the others
C17_ActsById ==
    [][/\ \A data \in IdInputs, id \in DrawnIds :
            SaveNewTransaction(data, id) =>
               /\ Len(transactions') = Len(transactions) + 1
               /\ SubSeq(transactions', 1, Len(transactions)) = transactions
               /\ transactions'[Len(transactions')] = WithId(NormalizedData(data), id)
       /\ \A data \in IdEdits, id \in DrawnIds :
            SaveEditedTransaction(data, id) =>
               /\ Len(transactions') = Len(transactions)
               /\ \A i \in DOMAIN transactions :
                     transactions'[i] = IF transactions[i].id = id
                                        THEN WithId(NormalizedData(data), id)
                                        ELSE transactions[i]
               /\ Survivors(id) = DOMAIN transactions => transactions' = transactions
       /\ \A id \in DrawnIds :
            DeleteTransaction(id) =>
               /\ Len(transactions') = Cardinality(Survivors(id))
               /\ \A i \in Survivors(id) :
                     transactions'[Cardinality({j \in Survivors(id) : j <= i})] = transactions[i]
      ]_vars

\* two transactions of one id that an edit has replaced, in front of and
\* behind a transaction of another id that it has left as it was
C17_Witness ==
    /\ Len(transactions) = 3
    /\ transactions[1] = transactions[3]
    /\ \E data \in IdEdits : transactions[1] = WithId(NormalizedData(data), transactions[1].id)
    /\ transactions[2].id # transactions[1].id
    /\ \E data \in IdInputs : transactions[2] = WithId(NormalizedData(data), transactions[2].id)

\* C18: with no authenticated user and guest mode off, the list is empty once the
\* load effect has run; and no step that ends without an authenticated user
\* (an add, edit, delete, import or price update of a guest, or a logout) writes
\* to local storage.
C18_NoUserNoStorage ==
    /\ [](user = NoUser /\ ~isGuestMode /\ isDataLoaded => transactions = <<>>)
    /\ [][user' = NoUser => localStorage' = localStorage]_vars

C18_Witness ==
    /\ user = NoUser /\ isGuestMode /\ isDataLoaded
    /\ transactions # <<>>
    /\ currentPrices # <<>>
    /\ "ann" \in DOMAIN localStorage
    /\ localStorage["ann"].transactions # <<>>
    /\ localStorage["ann"].transactions # transactions

\* a step in which updateMarketPrices starts a fetch
FetchStarts == ~isFetching /\ isFetching'

\* C19: once a fetch that asked for a symbol has completed in the session, no
\* later automatic fetch asks for that symbol again, whatever is done to the list.
C19_NoRepeatedAutomaticFetch ==
    [][FetchStarts /\ ~request'.isManual
            => request'.symbols \cap fetchedInSession = {}]_vars

\* C20: a fetch that fails with a rate-limit message opens a cooldown of 60, and
\* no fetch, automatic or manual, starts while cooldownRemaining is above 0.
C20_CooldownBlocksFetches ==
    [][/\ (isFetching /\ ~isFetching' /\ priceError' = QuotaLimit
                => cooldownRemaining' = CooldownSeconds)
       /\ (cooldownRemaining > 0 => ~FetchStarts)]_vars

C20_Witness ==
    /\ cooldownRemaining \in 1..(CooldownSeconds - 1)
    /\ priceError = QuotaLimit
    /\ ~isFetching
    /\ \E sym \in PortfolioSymbols(transactions) : CurrentPrice(currentPrices, sym) = Null

\* what local storage holds under the key of user u, nothing stored read as empty
StoredFor(storage, u) ==
    IF u \in DOMAIN storage THEN storage[u] ELSE [transactions |-> <<>>, prices |-> <<>>]

\* C21: what is written under a user's key is only data loaded for or entered by
\* that user: a step in which the user changes leaves under every key what was
\* stored there (under a new key, nothing), also between the load effect and the
\* save effect that follows it, and no step writes under the key of another user.
C21_StoredDataIsPartitioned ==
    [][/\ \A u \in Users : u # user' => StoredFor(localStorage', u) = StoredFor(localStorage, u)
       /\ user' # user \/ pending \/ pending'
            => \A u \in Users : StoredFor(localStorage', u) = StoredFor(localStorage, u)]_vars

\* the list saved for the user is the list in memory
SavedIsCurrent ==
    user # NoUser /\ ~pending => StoredFor(localStorage, user).transactions = transactions

\* C22: the auto-save does not run for a user before the stored data of that
\* user is in memory, so a login never replaces a stored non-empty list by an
\* empty one; and once the load is rendered, and after every add, edit, delete
\* and import, the list stored for the user is the list in memory, which is
\* what a later load for that user reads.
C22_SaveFollowsLoad ==
    /\ [][user' # user /\ StoredFor(localStorage, user').transactions # <<>>
            => StoredFor(localStorage', user').transactions # <<>>]_vars
    /\ []SavedIsCurrent

\* withRetry has returned a result or thrown an error to its caller
RetryEnded == retry.status \in {"returned", "thrown"}

\* C23: withRetry calls its function at most retries + 1 times (fetchCurrentPrices
\* at most twice); it waits and calls again only after an error with 429 or
\* RESOURCE_EXHAUSTED in its message or with status 429, and only while retries
\* remain; every wait has a base delay double that of the wait before; an error
\* is rethrown exactly when it is another error or no retry remains; and once a
\* result is returned or an error rethrown no further call is made.
C23_RetryDiscipline ==
    /\ [](/\ retry.calls <= retry.given + 1
          /\ retry.given = FetchRetries => retry.calls <= 2
          /\ Len(retry.delays) = retry.calls - (IF retry.status \in {"idle", "waiting"} THEN 0 ELSE 1)
          /\ \A i \in 2..Len(retry.delays) :
                retry.delays[i].base = 2 * retry.delays[i - 1].base
          /\ retry.status = "waiting" => IsRetryable(retry.error) /\ retry.retries > 0
          /\ retry.status = "thrown" => ~IsRetryable(retry.error) \/ retry.retries = 0)
    /\ [][RetryEnded => retry' = retry]_vars

C23_Witness ==
    /\ retry.status = "returned"
    /\ retry.given = DefaultRetries
    /\ retry.calls = DefaultRetries + 1
    /\ retry.delays[2].base = 2 * DefaultBaseDelay

\* C24: cooldownRemaining stays within 0..60; it changes only by being set to 60
\* by a rate-limit failure or by going down by 1 at a tick; an open cooldown
\* eventually reaches 0; and the step that brings it to 0 clears the "Limit"
\* error, after which a refresh is held back by nothing but a fetch under way.
C24_CooldownCountsDown ==
    /\ [](cooldownRemaining \in 0..CooldownSeconds)
    /\ [][cooldownRemaining' # cooldownRemaining
            => \/ cooldownRemaining' = CooldownSeconds /\ priceError' = QuotaLimit
               \/ cooldownRemaining' = cooldownRemaining - 1]_vars
    /\ [][cooldownRemaining > 0 /\ cooldownRemaining' = 0 => priceError' = Null]_vars
    /\ [](cooldownRemaining = 0 /\ ~isFetching /\ transactions # <<>>
            => StartsFetch(PortfolioSymbols(transactions), TRUE, currentPrices))
    /\ (cooldownRemaining > 0 ~> cooldownRemaining = 0)

C24_Witness ==
    /\ cooldownRemaining = 1
    /\ priceError = QuotaLimit
    /\ transactions # <<>>

\* C25: at most one price fetch is awaited at any time; while one is awaited a
\* call of updateMarketPrices, from the effect after any change of the list or
\* from the button, starts no other and leaves the request awaited, the guard
\* and the price error as they are.
C25_OneFetchInFlight ==
    /\ [](inFlight <= 1 /\ (isFetching <=> inFlight = 1))
    /\ [][isFetching /\ isFetching'
            => inFlight' = inFlight /\ request' = request /\ priceError' = priceError]_vars

C25_Witness ==
    /\ isFetching
    /\ \E sym \in PortfolioSymbols(transactions) :
            CurrentPrice(currentPrices, sym) = Null /\ sym \notin request.symbols

\* C26: every settlement of a fetch, a result or an error of either kind,
\* releases the guard, so that a fetch that was started is not holding the guard
\* for ever and a later fetch can start.
C26_GuardIsReleased ==
    /\ [][inFlight' < inFlight => ~isFetching' /\ request' = NoRequest]_vars
    /\ (isFetching ~> ~isFetching)

C26_Witness ==
    /\ ~isFetching /\ inFlight = 0
    /\ priceError = PriceFetchFailed
    /\ fetchedInSession # {}

\* C27: a fetch that fails leaves the price map as it is; a fetch that succeeds
\* merges what it returns over the map: every symbol that had a price keeps
\* one, a symbol of the response gets the price of the response, and every
\* other symbol keeps the price it had.
C27_PricesAreMerged ==
    [][inFlight' < inFlight
        => IF priceError' # Null
           THEN currentPrices' = currentPrices
           ELSE \E prices \in Answers(request.symbols) :
                    /\ DOMAIN currentPrices \subseteq DOMAIN currentPrices'
                    /\ \A sym \in DOMAIN currentPrices' :
                            IF sym \in DOMAIN prices
                            THEN currentPrices'[sym] = prices[sym]
                            ELSE /\ sym \in DOMAIN currentPrices
                                 /\ currentPrices'[sym] = currentPrices[sym]]_vars

C27_Witness ==
    /\ DOMAIN currentPrices = {FORD, TELUS}
    /\ currentPrices[FORD] = Num(6)
    /\ currentPrices[TELUS] = Num(3)
    /\ priceError = PriceFetchFailed

\* no SELL among the first k transactions of txs is of more shares than are held
NoOversell(txs, k) ==
    \A j \in 1..k :
        IsSell(txs[j]) => Geq(StateAfter(txs, j - 1).sharesHeld, txs[j].shares)

\* the cost the SELLs among the first k transactions take off the running cost:
\* the sold shares at the average cost of the moment
RECURSIVE CostRemoved(_, _)
CostRemoved(txs, k) ==
    IF k = 0 THEN Zero
    ELSE LET before == StateAfter(txs, k - 1)
         IN  Add(CostRemoved(txs, k - 1),
                 IF IsSell(txs[k])
                 THEN Mul(txs[k].shares, AverageCost(before.sharesHeld, before.totalCost))
                 ELSE Zero)

BuysAmong(txs, k) == SelectSeq(SubSeq(txs, 1, k), IsBuy)

SellsAmong(txs, k) == SelectSeq(SubSeq(txs, 1, k), IsSell)

BuyPrices(txs) == {txs[k].price : k \in {j \in DOMAIN txs : IsBuy(txs[j])}}

Reorderings(n) ==
    {p \in [1..n -> 1..n] : \A i, j \in 1..n : i # j => p[i] # p[j]}

Reordered(txs, p) == [i \in DOMAIN txs |-> txs[p[i]]]

\* no two transactions of a symbol have the same date
DistinctDatesPerSymbol(txs) ==
    \A i, j \in DOMAIN txs :
        i # j /\ SymbolKey(txs[i]) = SymbolKey(txs[j]) => txs[i].date # txs[j].date

HoldingOf(s) ==
    [symbol |-> s.symbol, totalShares |-> s.totalShares, avgCost |-> s.avgCost,
     totalInvested |-> s.totalInvested, realizedPL |-> s.realizedPL]

Holdings(summaries) == [i \in DOMAIN summaries |-> HoldingOf(summaries[i])]

============================================================================
